---- MODULE Spec2Model ----
(***************************************************************************)
(* The Project Euler 50 functions of the post "Speed up your Python code   *)
(* 60x": is_prime, generate_primes, longest_sum_of_consecutive_primes and  *)
(* main.  is_prime and generate_primes are operators computed the way the *)
(* code computes them; the search runs one pass of its outer loop per      *)
(* step.  The actions apply them to inputs drawn from bounded sets.        *)
(***************************************************************************)
EXTENDS Integers, Sequences, FiniteSets

VARIABLES
    pc,          \* where the run is (the values of the first listing
                 \* come first, each later part of the module adds its
                 \* own): "start"; about to call
                 \* "generate_primes", "rs_extension.generate_primes" or
                 \* "longest_sum_of_consecutive_primes"; in the search's
                 \* "outer_loop"; "is_prime" has returned; the search has
                 \* returned ("done")
    caller,      \* who runs the functions: "none", "main" (the first
                 \* listing), "main_final" (the last one), "caller", "list"
    n,           \* the argument of the last direct is_prime call
    ret,         \* what that call returned
    target,      \* the target passed to generate_primes and to the search
    primes,      \* the list passed to the search
    i,           \* the search's outer loop variable
    max_prime,   \* the search's max_prime, returned first
    max_length,  \* the search's max_length, returned second
    trial,       \* is_prime's i, when is_prime runs one loop test per step
    tested,      \* the trial divisors that run has tested, in order
    results,     \* what the earlier calls or versions of this run returned
    table,       \* the rows read from the MS-DIAL file
    query,       \* the rows that query_str accepts
    df,          \* the DataFrame overlay_untargeted_data returns
    pattern_df_1,    \* the DataFrame of the cell fig-overlay_example1
    pattern_df_2,    \* the DataFrame of the cell fig-overlay_example2
    tbl,         \* the table of the cell tbl-overlaid-identifications
    execution_time,  \* the column execution_time of the chart's df
    confusion    \* the counts of the final evaluation on the test set

trial_vars == <<trial, tested>>
overlay_vars == <<table, query, df, pattern_df_1, pattern_df_2, tbl>>
chart_vars == <<execution_time>>
eval_vars == <<confusion>>

vars ==
    <<pc, caller, n, ret, target, primes, i, max_prime, max_length,
      trial_vars, results, overlay_vars, chart_vars, eval_vars>>

----------------------------------------------------------------------------
(* Bounds of the explored inputs.                                          *)

MaxNeg == 3          \* inputs go down to -MaxNeg
MaxN == 60           \* is_prime is called directly with -MaxNeg..MaxN
MaxTarget == 45      \* generate_primes is run with -MaxNeg..MaxTarget
MaxLen == 3          \* hand-made lists have at most MaxLen elements
MaxElem == 7         \* ... drawn from the primes up to MaxElem
MaxListTarget == 20  \* ... and searched with targets -MaxNeg..MaxListTarget
MaxRows == 2         \* the MS-DIAL file holds at most MaxRows rows

(* Numbers of the post.                                                    *)

Hundred == 100       \* "a prime below one-hundred"
Thousand == 1000     \* "below one-thousand"; "which is in our case 1000"

----------------------------------------------------------------------------
(* What the words of the claims mean, independently of the code.           *)

IsPrimeNumber(k) == k >= 2 /\ \A d \in 2..(k - 1) : k % d # 0

\* s[lo] + ... + s[hi]
RECURSIVE RangeSum(_, _, _)
RangeSum(s, lo, hi) ==
    IF lo > hi THEN 0
    ELSE IF lo = hi THEN s[lo]
    ELSE LET mid == (lo + hi) \div 2
         IN  RangeSum(s, lo, mid) + RangeSum(s, mid + 1, hi)

\* the sum of the k consecutive elements of s that start at (0-based)
\* index a
WindowSum(s, a, k) == RangeSum(s, a + 1, a + k)

\* a * scale / b, rounded to the nearest integer
RoundRatio(a, b, scale) == (2 * a * scale + b) \div (2 * b)

\* some k consecutive elements of s sum to a prime that is at most t
HasRun(s, t, k) ==
    \E a \in 0..(Len(s) - k) :
        LET w == WindowSum(s, a, k) IN IsPrimeNumber(w) /\ w <= t

\* the greatest such k, 0 when there is none
BestLength(s, t) ==
    LET ks == {k \in 1..Len(s) : HasRun(s, t, k)}
    IN  IF ks = {} THEN 0 ELSE CHOOSE k \in ks : \A m \in ks : m <= k

----------------------------------------------------------------------------
(* is_prime                                                                *)

\* while i * i <= n
is_prime_continues_mut(d, k) == d * d < k
is_prime_continues(d, k) == d * d <= k

\* the loop from i = d on
RECURSIVE is_prime_loop(_, _)
is_prime_loop(k, d) ==
    IF is_prime_continues(d, k)
    THEN IF k % d = 0 THEN FALSE ELSE is_prime_loop(k, d + 1)
    ELSE TRUE

is_prime(k) == IF k <= 1 THEN FALSE ELSE is_prime_loop(k, 2)

----------------------------------------------------------------------------
(* generate_primes                                                         *)

\* list(range(lo, hi)): lo, lo + 1, ..., hi - 1
range(lo, hi) == [x \in 1..(hi - lo) |-> lo + x - 1]

\* range(2, target + 1)
candidates_mut(t) == range(2, t)
candidates(t) == range(2, t + 1)

generate_primes(t) == SelectSeq(candidates(t), is_prime)

----------------------------------------------------------------------------
(* longest_sum_of_consecutive_primes                                       *)

\* primes[i:j], Python's 0-based half-open slice, for 0 <= i and j <= len
slice(s, k, j) == SubSeq(s, k + 1, j)

\* sum(...): adds the elements from left to right, starting from 0
RECURSIVE sum_from(_, _, _)
sum_from(s, k, acc) ==
    IF k > Len(s) THEN acc ELSE sum_from(s, k + 1, acc + s[k])

sum(s) == sum_from(s, 1, 0)

\* the last value of j in "for j in range(i + max_length, len(primes))" is
\* one less than inner_stop
inner_stop(s) == Len(s)

\* if sum_of_primes > target: break
exceeds(sum_of_primes, t) == sum_of_primes > t

\* if is_prime(sum_of_primes) and (j - i) > max_length
improves_mut(sum_of_primes, k, j, best) == (j - k) > best.max_length
improves(sum_of_primes, k, j, best) ==
    is_prime(sum_of_primes) /\ (j - k) > best.max_length

\* max_length = j - i ; max_prime = sum_of_primes
record_mut(sum_of_primes, k, j) ==
    [max_length |-> j - k + 1, max_prime |-> sum_of_primes]
record(sum_of_primes, k, j) ==
    [max_length |-> j - k, max_prime |-> sum_of_primes]

\* the inner loop from j on, for one i; best holds max_length and max_prime
RECURSIVE inner_loop(_, _, _, _, _)
inner_loop(s, t, k, j, best) ==
    IF j >= inner_stop(s)
    THEN best
    ELSE LET sum_of_primes == sum(slice(s, k, j))
         IN  IF exceeds(sum_of_primes, t)
             THEN best
             ELSE inner_loop(s, t, k, j + 1,
                             IF improves(sum_of_primes, k, j, best)
                             THEN record(sum_of_primes, k, j)
                             ELSE best)

\* one pass of the outer loop: the inner range starts at i + max_length,
\* with the value max_length has when the inner loop is entered
outer_body(s, t, k, best) == inner_loop(s, t, k, k + best.max_length, best)

----------------------------------------------------------------------------
(* rs_extension: the three functions in Rust.  With target at most         *)
(* 1_000_000 no u32 leaves its 32 bits: i * i stays below (n + 1) * (n + 1) *)
(* for n at most twice the target, and a window's sum stays at most twice  *)
(* the target, the loop breaking at the first sum above it.  The u32       *)
(* arithmetic is therefore that of the integers.                           *)

\* while i * i <= n
rs_is_prime_continues(d, k) == d * d <= k

\* let mut i = 2; while i * i <= n { if n % i == 0 { return false; }
\* i += 1; } true
RECURSIVE rs_is_prime_loop(_, _)
rs_is_prime_loop(k, d) ==
    IF rs_is_prime_continues(d, k)
    THEN IF k % d = 0 THEN FALSE ELSE rs_is_prime_loop(k, d + 1)
    ELSE TRUE

\* fn is_prime(n: u32) -> bool: if n <= 1 { return false; }
rs_is_prime(k) == IF k <= 1 THEN FALSE ELSE rs_is_prime_loop(k, 2)

\* 2..=target
range_inclusive(lo, hi) == range(lo, hi + 1)

\* (2..=target).filter(|&n| is_prime(n)).collect::<Vec<u32>>()
rs_generate_primes(t) == SelectSeq(range_inclusive(2, t), rs_is_prime)

\* primes[i..j].iter().sum()
rs_sum(s) == sum(s)

\* for j in i + max_length..primes.len()
rs_inner_stop(s) == Len(s)

\* if sum_of_primes > target { break; }
rs_exceeds_mut(sum_of_primes, t) == sum_of_primes >= t
rs_exceeds(sum_of_primes, t) == sum_of_primes > t

\* if is_prime(sum_of_primes) && (j - i) > max_length
rs_improves(sum_of_primes, k, j, best) ==
    rs_is_prime(sum_of_primes) /\ (j - k) > best.max_length

\* max_length = j - i; max_prime = sum_of_primes;
rs_record(sum_of_primes, k, j) ==
    [max_length |-> j - k, max_prime |-> sum_of_primes]

\* the inner loop from j on, for one i
RECURSIVE rs_inner_loop(_, _, _, _, _)
rs_inner_loop(s, t, k, j, best) ==
    IF j >= rs_inner_stop(s)
    THEN best
    ELSE LET sum_of_primes == rs_sum(slice(s, k, j))
         IN  IF rs_exceeds(sum_of_primes, t)
             THEN best
             ELSE rs_inner_loop(s, t, k, j + 1,
                                IF rs_improves(sum_of_primes, k, j, best)
                                THEN rs_record(sum_of_primes, k, j)
                                ELSE best)

\* one pass of for i in 0..primes.len()
rs_outer_body(s, t, k, best) ==
    rs_inner_loop(s, t, k, k + best.max_length, best)

\* the second version's generate_primes: the Python list comprehension over
\* range(2, target + 1), with rs_extension.is_prime as its test
generate_primes_v2(t) == SelectSeq(candidates(t), rs_is_prime)

----------------------------------------------------------------------------
(* overlay_untargeted_data, and the cells that call it.  A row holds the   *)
(* columns the claims read, under the names rename gives them;            *)
(* average_rt_min_ is kept in tenths of a minute.                          *)

\* .query("annotation_tag__vs1_0_ == '430' or annotation_tag__vs1_0_ == '530'")
tag_matches(row) ==
    row.annotation_tag__vs1_0_ = "430" \/ row.annotation_tag__vs1_0_ = "530"

query_tag(t) == SelectSeq(t, tag_matches)

\* the columns a query_str of the document reads
point(row) ==
    [average_rt_min_ |-> row.average_rt_min_, average_mz |-> row.average_mz]

\* .query(query_str), q being the points query_str accepts
query_rows(t, q) == SelectSeq(t, LAMBDA row : point(row) \in q)

\* .drop_duplicates(subset="metabolite_name"): a row stays unless a row
\* before it has its metabolite_name (keep="first")
drop_duplicates_mut(t) ==
    LET stays(k) ==
            \A m \in (k + 1)..Len(t) :
                t[m].metabolite_name # t[k].metabolite_name
        pick[k \in 0..Len(t)] ==
            IF k = 0 THEN <<>>
            ELSE IF stays(k) THEN Append(pick[k - 1], t[k]) ELSE pick[k - 1]
    IN  pick[Len(t)]
drop_duplicates(t) ==
    LET stays(k) ==
            \A m \in 1..(k - 1) :
                t[m].metabolite_name # t[k].metabolite_name
        pick[k \in 0..Len(t)] ==
            IF k = 0 THEN <<>>
            ELSE IF stays(k) THEN Append(pick[k - 1], t[k]) ELSE pick[k - 1]
    IN  pick[Len(t)]

\* the df of overlay_untargeted_data, from the rows read_csv and rename give
overlay_df(t, q) == drop_duplicates(query_rows(query_tag(t), q))

\* query_str of fig-overlay_example1 ("and" binds tighter than "or")
in_query_1(p) ==
    \/ 35 < p.average_rt_min_ /\ p.average_rt_min_ < 50
       /\ 460 < p.average_mz /\ p.average_mz < 500
    \/ 50 < p.average_rt_min_ /\ p.average_rt_min_ < 65
       /\ 575 < p.average_mz /\ p.average_mz < 650
    \/ 95 < p.average_rt_min_ /\ p.average_rt_min_ < 100
       /\ 280 < p.average_mz /\ p.average_mz < 320

\* query_str of fig-overlay_example2
in_query_2(p) ==
    \/ 165 < p.average_rt_min_ /\ p.average_rt_min_ < 180
       /\ 180 < p.average_mz /\ p.average_mz < 250
    \/ 40 < p.average_rt_min_ /\ p.average_rt_min_ < 55
       /\ 50 < p.average_mz /\ p.average_mz < 100
    \/ 80 < p.average_rt_min_ /\ p.average_rt_min_ < 120
       /\ 50 < p.average_mz /\ p.average_mz < 100
    \/ 85 < p.average_rt_min_ /\ p.average_rt_min_ < 90
       /\ 250 < p.average_mz /\ p.average_mz < 300
    \/ 120 < p.average_rt_min_ /\ p.average_rt_min_ < 140
       /\ 200 < p.average_mz /\ p.average_mz < 220
    \/ 180 < p.average_rt_min_ /\ p.average_rt_min_ < 200
       /\ 280 < p.average_mz /\ p.average_mz < 350

\* pd.concat([a, b], axis=0)
concat(a, b) == a \o b

\* .drop(columns=["sp_10", "sp_20"])
drop_sp_columns(t) ==
    [k \in 1..Len(t) |->
        [metabolite_name |-> t[k].metabolite_name,
         annotation_tag__vs1_0_ |-> t[k].annotation_tag__vs1_0_,
         average_rt_min_ |-> t[k].average_rt_min_,
         average_mz |-> t[k].average_mz]]

\* .head(rows)
head(t, rows) == SubSeq(t, 1, IF Len(t) < rows THEN Len(t) ELSE rows)

\* .head(50)
HeadRows == 50

----------------------------------------------------------------------------
(* main, and the callers the claims speak of                               *)

\* TARGET = 1_000_000, in the first main and in the final one
TARGET == 1000000
TARGET_final == 1000000

Ints == (0 - MaxNeg)..MaxN

\* the targets whose runs are explored
Targets == ((0 - MaxNeg)..MaxTarget) \cup {Hundred, Thousand}

ListTargets == (0 - MaxNeg)..MaxListTarget

PrimePool == {p \in 2..MaxElem : IsPrimeNumber(p)}

PrimeLists == UNION {[1..len -> PrimePool] : len \in 0..MaxLen}

Init ==
    /\ pc = "start"
    /\ caller = "none"
    /\ n = 0
    /\ ret = FALSE
    /\ target = 0
    /\ primes = <<>>
    /\ i = 0
    /\ max_prime = 0
    /\ max_length = 0
    /\ trial = 0
    /\ tested = <<>>
    /\ results = <<>>
    /\ table = <<>>
    /\ query = {}
    /\ df = <<>>
    /\ pattern_df_1 = <<>>
    /\ pattern_df_2 = <<>>
    /\ tbl = <<>>
    /\ execution_time = <<>>
    /\ confusion = [tp |-> 0, tn |-> 0, fn |-> 0, fp |-> 0]

\* is_prime(k), called on its own
IsPrimeCall ==
    /\ pc = "start"
    /\ \E k \in Ints :
        /\ n' = k
        /\ ret' = is_prime(k)
    /\ pc' = "is_prime"
    /\ UNCHANGED <<caller, target, primes, i, max_prime, max_length>>
    /\ UNCHANGED <<trial_vars, results, overlay_vars, chart_vars, eval_vars>>

\* is_prime(k) again, one test of the loop per step: if n <= 1: return
\* False ; i = 2
IsPrimeEnter ==
    /\ pc = "start"
    /\ \E k \in Ints :
        /\ n' = k
        /\ IF k <= 1
           THEN ret' = FALSE /\ trial' = trial /\ pc' = "is_prime_returned"
           ELSE ret' = ret /\ trial' = 2 /\ pc' = "is_prime_loop"
    /\ tested' = <<>>
    /\ caller' = "trial"
    /\ UNCHANGED <<target, primes, i, max_prime, max_length>>
    /\ UNCHANGED <<results, overlay_vars, chart_vars, eval_vars>>

\* while i * i <= n: if n % i == 0: return False ; i += 1
IsPrimeTest ==
    /\ pc = "is_prime_loop"
    /\ is_prime_continues(trial, n)
    /\ tested' = Append(tested, trial)
    /\ IF n % trial = 0
       THEN ret' = FALSE /\ trial' = trial /\ pc' = "is_prime_returned"
       ELSE ret' = ret /\ trial' = trial + 1 /\ pc' = pc
    /\ UNCHANGED <<caller, n, target, primes, i, max_prime, max_length>>
    /\ UNCHANGED <<results, overlay_vars, chart_vars, eval_vars>>

\* the while condition fails: return True
IsPrimeExit ==
    /\ pc = "is_prime_loop"
    /\ ~is_prime_continues(trial, n)
    /\ ret' = TRUE
    /\ pc' = "is_prime_returned"
    /\ UNCHANGED <<caller, n, target, primes, i, max_prime, max_length>>
    /\ UNCHANGED <<trial_vars, results, overlay_vars, chart_vars, eval_vars>>

\* main: TARGET = 1_000_000
MainEnter ==
    /\ pc = "start"
    /\ target' = TARGET
    /\ caller' = "main"
    /\ pc' = "generate_primes"
    /\ UNCHANGED <<n, ret, primes, i, max_prime, max_length>>
    /\ UNCHANGED <<trial_vars, results, overlay_vars, chart_vars, eval_vars>>

\* the final main: TARGET = 1_000_000, then the calls into rs_extension
MainFinalEnter ==
    /\ pc = "start"
    /\ target' = TARGET_final
    /\ caller' = "main_final"
    /\ pc' = "rs_extension.generate_primes"
    /\ UNCHANGED <<n, ret, primes, i, max_prime, max_length>>
    /\ UNCHANGED <<trial_vars, results, overlay_vars, chart_vars, eval_vars>>

\* the same two calls as main makes, with another target
CallerEnter ==
    /\ pc = "start"
    /\ \E t \in Targets : target' = t
    /\ caller' = "caller"
    /\ pc' = "generate_primes"
    /\ UNCHANGED <<n, ret, primes, i, max_prime, max_length>>
    /\ UNCHANGED <<trial_vars, results, overlay_vars, chart_vars, eval_vars>>

\* the search called with a list that generate_primes did not make
ListEnter ==
    /\ pc = "start"
    /\ \E s \in PrimeLists : primes' = s
    /\ \E t \in ListTargets : target' = t
    /\ caller' = "list"
    /\ pc' = "longest_sum_of_consecutive_primes"
    /\ UNCHANGED <<n, ret, i, max_prime, max_length>>
    /\ UNCHANGED <<trial_vars, results, overlay_vars, chart_vars, eval_vars>>

\* primes = generate_primes(TARGET); a run is explored when its target is
\* one of Targets
GeneratePrimes ==
    /\ pc = "generate_primes"
    /\ target \in Targets
    /\ primes' = generate_primes(target)
    /\ pc' = "longest_sum_of_consecutive_primes"
    /\ UNCHANGED <<caller, n, ret, target, i, max_prime, max_length>>
    /\ UNCHANGED <<trial_vars, results, overlay_vars, chart_vars, eval_vars>>

\* longest_sum_of_consecutive_primes(primes, target) is entered:
\* max_length = 0 ; max_prime = 0
LongestEnter ==
    /\ pc = "longest_sum_of_consecutive_primes"
    /\ max_length' = 0
    /\ max_prime' = 0
    /\ i' = 0
    /\ pc' = "outer_loop"
    /\ UNCHANGED <<caller, n, ret, target, primes>>
    /\ UNCHANGED <<trial_vars, results, overlay_vars, chart_vars, eval_vars>>

\* a search that takes each start from the head of the list and removes it
LongestOuterStep_mut ==
    /\ pc = "outer_loop"
    /\ i < Len(primes)
    /\ LET best == outer_body(primes, target, 0,
                              [max_length |-> max_length,
                               max_prime |-> max_prime])
       IN  /\ max_length' = best.max_length
           /\ max_prime' = best.max_prime
    /\ primes' = Tail(primes)
    /\ UNCHANGED <<pc, caller, n, ret, target, i>>
    /\ UNCHANGED <<trial_vars, results, overlay_vars, chart_vars, eval_vars>>

\* for i in range(len(primes)): one pass, the whole inner loop
LongestOuterStep ==
    /\ pc = "outer_loop"
    /\ i < Len(primes)
    /\ LET best == outer_body(primes, target, i,
                              [max_length |-> max_length,
                               max_prime |-> max_prime])
       IN  /\ max_length' = best.max_length
           /\ max_prime' = best.max_prime
    /\ i' = i + 1
    /\ UNCHANGED <<pc, caller, n, ret, target, primes>>
    /\ UNCHANGED <<trial_vars, results, overlay_vars, chart_vars, eval_vars>>

\* return max_prime, max_length
LongestReturn ==
    /\ pc = "outer_loop"
    /\ i >= Len(primes)
    /\ pc' = "done"
    /\ UNCHANGED <<caller, n, ret, target, primes, i, max_prime, max_length>>
    /\ UNCHANGED <<trial_vars, results, overlay_vars, chart_vars, eval_vars>>

\* the caller keeps the pair returned and calls again with the same primes
\* and target
CallAgain ==
    /\ pc = "done"
    /\ caller = "list"
    /\ results = <<>>
    /\ results' = Append(results, <<max_prime, max_length>>)
    /\ pc' = "longest_sum_of_consecutive_primes"
    /\ UNCHANGED <<caller, n, ret, target, primes, i, max_prime, max_length>>
    /\ UNCHANGED <<trial_vars, overlay_vars, chart_vars, eval_vars>>

\* the three versions of main, run one after the other with one TARGET that
\* fits a u32; the first is the Python main
VersionsEnter ==
    /\ pc = "start"
    /\ \E t \in Targets :
        /\ t >= 0
        /\ target' = t
    /\ caller' = "versions"
    /\ pc' = "generate_primes"
    /\ UNCHANGED <<n, ret, primes, i, max_prime, max_length>>
    /\ UNCHANGED <<trial_vars, results, overlay_vars, chart_vars, eval_vars>>

\* print(f"Prime: {max_prime}, Length: {max_length}") of the first version;
\* the second version starts
PrintV1 ==
    /\ pc = "done"
    /\ caller = "versions"
    /\ results' = Append(results, <<max_prime, max_length>>)
    /\ pc' = "v2.generate_primes"
    /\ UNCHANGED <<caller, n, ret, target, primes, i, max_prime, max_length>>
    /\ UNCHANGED <<trial_vars, overlay_vars, chart_vars, eval_vars>>

\* primes = generate_primes(TARGET) of the second version
GeneratePrimesV2 ==
    /\ pc = "v2.generate_primes"
    /\ primes' = generate_primes_v2(target)
    /\ pc' = "rs_extension.longest_sum_of_consecutive_primes"
    /\ UNCHANGED <<caller, n, ret, target, i, max_prime, max_length>>
    /\ UNCHANGED <<trial_vars, results, overlay_vars, chart_vars, eval_vars>>

\* primes = rs_extension.generate_primes(TARGET); a run is explored when its
\* target is one of Targets
RsGeneratePrimes ==
    /\ pc = "rs_extension.generate_primes"
    /\ target \in Targets
    /\ primes' = rs_generate_primes(target)
    /\ pc' = "rs_extension.longest_sum_of_consecutive_primes"
    /\ UNCHANGED <<caller, n, ret, target, i, max_prime, max_length>>
    /\ UNCHANGED <<trial_vars, results, overlay_vars, chart_vars, eval_vars>>

\* let mut max_length: usize = 0; let mut max_prime: u32 = 0;
RsLongestEnter ==
    /\ pc = "rs_extension.longest_sum_of_consecutive_primes"
    /\ max_length' = 0
    /\ max_prime' = 0
    /\ i' = 0
    /\ pc' = "rs_outer_loop"
    /\ UNCHANGED <<caller, n, ret, target, primes>>
    /\ UNCHANGED <<trial_vars, results, overlay_vars, chart_vars, eval_vars>>

\* for i in 0..primes.len(): one pass, the whole inner loop
RsLongestOuterStep ==
    /\ pc = "rs_outer_loop"
    /\ i < Len(primes)
    /\ LET best == rs_outer_body(primes, target, i,
                                 [max_length |-> max_length,
                                  max_prime |-> max_prime])
       IN  /\ max_length' = best.max_length
           /\ max_prime' = best.max_prime
    /\ i' = i + 1
    /\ UNCHANGED <<pc, caller, n, ret, target, primes>>
    /\ UNCHANGED <<trial_vars, results, overlay_vars, chart_vars, eval_vars>>

\* (max_prime, max_length)
RsLongestReturn ==
    /\ pc = "rs_outer_loop"
    /\ i >= Len(primes)
    /\ pc' = "rs_done"
    /\ UNCHANGED <<caller, n, ret, target, primes, i, max_prime, max_length>>
    /\ UNCHANGED <<trial_vars, results, overlay_vars, chart_vars, eval_vars>>

\* print(f"Prime: {max_prime}, Length: {max_length}") of a version that
\* searches in Rust; after the second version the final one starts
PrintRs ==
    /\ pc = "rs_done"
    /\ results' = Append(results, <<max_prime, max_length>>)
    /\ pc' = IF caller = "versions" /\ Len(results) = 1
             THEN "rs_extension.generate_primes"
             ELSE "printed"
    /\ UNCHANGED <<caller, n, ret, target, primes, i, max_prime, max_length>>
    /\ UNCHANGED <<trial_vars, overlay_vars, chart_vars, eval_vars>>

----------------------------------------------------------------------------
(* The inputs and the steps of the DeepLCMS document.                      *)

\* a point in a box of the first query, one in a box of the second, one in
\* neither
Points ==
    {[average_rt_min_ |-> 40, average_mz |-> 480],
     [average_rt_min_ |-> 170, average_mz |-> 200],
     [average_rt_min_ |-> 10, average_mz |-> 700]}

Names == {"EDDP", "Aspirine"}

Tags == {"430", "530", "999"}

Rows ==
    {[metabolite_name |-> name, annotation_tag__vs1_0_ |-> tag,
      average_rt_min_ |-> p.average_rt_min_, average_mz |-> p.average_mz,
      sp_10 |-> 0, sp_20 |-> 0] :
        name \in Names, tag \in Tags, p \in Points}

Tables == UNION {[1..len -> Rows] : len \in 0..MaxRows}

\* every query_str over the two columns, as the points it accepts
Queries == SUBSET Points

\* the file PeakID_0_2023_12_25_17_39_09.csv, as read_csv and rename give it
FileEnter ==
    /\ pc = "start"
    /\ \E t \in Tables : table' = t
    /\ caller' = "DeepLCMS"
    /\ pc' = "file"
    /\ UNCHANGED <<n, ret, target, primes, i, max_prime, max_length>>
    /\ UNCHANGED <<trial_vars, results, chart_vars, eval_vars>>
    /\ UNCHANGED <<query, df, pattern_df_1, pattern_df_2, tbl>>

\* overlay_untargeted_data(query_str, ...), for any query_str
OverlayCall ==
    /\ pc = "file"
    /\ \E q \in Queries :
        /\ query' = q
        /\ df' = overlay_df(table, q)
    /\ pc' = "overlay_returned"
    /\ UNCHANGED <<caller, n, ret, target, primes, i, max_prime, max_length>>
    /\ UNCHANGED <<trial_vars, results, chart_vars, eval_vars>>
    /\ UNCHANGED <<table, pattern_df_1, pattern_df_2, tbl>>

\* the cell fig-overlay_example1
OverlayExample1 ==
    /\ pc = "file"
    /\ pattern_df_1' = overlay_df(table, {p \in Points : in_query_1(p)})
    /\ pc' = "fig-overlay_example2"
    /\ UNCHANGED <<caller, n, ret, target, primes, i, max_prime, max_length>>
    /\ UNCHANGED <<trial_vars, results, chart_vars, eval_vars>>
    /\ UNCHANGED <<table, query, df, pattern_df_2, tbl>>

\* the cell fig-overlay_example2
OverlayExample2 ==
    /\ pc = "fig-overlay_example2"
    /\ pattern_df_2' = overlay_df(table, {p \in Points : in_query_2(p)})
    /\ pc' = "tbl-overlaid-identifications"
    /\ UNCHANGED <<caller, n, ret, target, primes, i, max_prime, max_length>>
    /\ UNCHANGED <<trial_vars, results, chart_vars, eval_vars>>
    /\ UNCHANGED <<table, query, df, pattern_df_1, tbl>>

\* the cell tbl-overlaid-identifications
OverlaidIdentifications ==
    /\ pc = "tbl-overlaid-identifications"
    /\ tbl' = head(drop_sp_columns(concat(pattern_df_1, pattern_df_2)),
                   HeadRows)
    /\ pc' = "tbl"
    /\ UNCHANGED <<caller, n, ret, target, primes, i, max_prime, max_length>>
    /\ UNCHANGED <<trial_vars, results, chart_vars, eval_vars>>
    /\ UNCHANGED <<table, query, df, pattern_df_1, pattern_df_2>>

----------------------------------------------------------------------------
(* The numbers the two documents report.                                   *)

\* "execution_time": [5.517, 0.641, 0.252, 0.092], in milliseconds
execution_time_data == <<5517, 641, 252, 92>>

\* the rows of df by "step": "original", "rewrite
\* longest_sum_of_consecutive_primes", "rewrite generate_primes"
original_time(t) == t[1]
second_rewrite_time_mut(t) == t[2]
second_rewrite_time(t) == t[3]
final_time_mut(t) == t[3]
final_time(t) == t[4]

\* "20 True Positives, 7 True Negatives, 2 False Negatives, and 1 False
\* Positive"
confusion_data_mut == [tp |-> 20, tn |-> 7, fn |-> 1, fp |-> 2]
confusion_data == [tp |-> 20, tn |-> 7, fn |-> 2, fp |-> 1]

\* the cell that builds df and the bar chart of the execution times
ShowChart ==
    /\ pc = "start"
    /\ execution_time' = execution_time_data
    /\ caller' = "chart"
    /\ pc' = "chart"
    /\ UNCHANGED <<n, ret, target, primes, i, max_prime, max_length>>
    /\ UNCHANGED <<trial_vars, results, overlay_vars, eval_vars>>

\* the final evaluation on the test set
Evaluate ==
    /\ pc = "start"
    /\ confusion' = confusion_data
    /\ caller' = "DeepLCMS"
    /\ pc' = "evaluated"
    /\ UNCHANGED <<n, ret, target, primes, i, max_prime, max_length>>
    /\ UNCHANGED <<trial_vars, results, overlay_vars, chart_vars>>

Next ==
    \/ IsPrimeCall
    \/ IsPrimeEnter
    \/ IsPrimeTest
    \/ IsPrimeExit
    \/ MainEnter
    \/ MainFinalEnter
    \/ CallerEnter
    \/ ListEnter
    \/ GeneratePrimes
    \/ LongestEnter
    \/ LongestOuterStep
    \/ LongestReturn
    \/ FileEnter
    \/ OverlayCall
    \/ OverlayExample1
    \/ OverlayExample2
    \/ OverlaidIdentifications
    \/ ShowChart
    \/ Evaluate
    \/ VersionsEnter
    \/ PrintV1
    \/ GeneratePrimesV2
    \/ RsGeneratePrimes
    \/ RsLongestEnter
    \/ RsLongestOuterStep
    \/ RsLongestReturn
    \/ PrintRs
    \/ CallAgain

Spec == Init /\ [][Next]_vars

\* the search has returned, having been given generate_primes(target)
Searched == pc = "done" /\ caller = "caller"

\* the search has returned, whatever list it was given
Returned == pc = "done"

----------------------------------------------------------------------------
(* The claims.                                                             *)

\* generate_primes(target) has returned to a caller that passed target
Generated ==
    /\ caller = "caller"
    /\ pc \in {"longest_sum_of_consecutive_primes", "outer_loop", "done"}

\* C1: is_prime(n) returns True exactly when n is a prime number (n >= 2
\* and no d with 2 <= d < n divides n), for negative n, 0 and 1 as well; it
\* returns False for every n <= 1.
C1_IsPrimeExact ==
    pc = "is_prime" =>
        /\ ret = IsPrimeNumber(n)
        /\ n <= 1 => ret = FALSE

\* is_prime has answered True for a number that needed several divisions
C1_Witness == pc = "is_prime" /\ n > 50 /\ ret = TRUE

\* C2: generate_primes(target) returns exactly the primes p with
\* 2 <= p <= target, target included when it is prime, each once, in
\* strictly ascending order; the empty list for target < 2.
C2_GeneratePrimesExact ==
    Generated =>
        /\ \A p \in 2..target :
               IsPrimeNumber(p) <=> \E k \in 1..Len(primes) : primes[k] = p
        /\ \A k \in 1..Len(primes) : primes[k] \in 2..target
        /\ \A k \in 1..(Len(primes) - 1) : primes[k] < primes[k + 1]
        /\ target < 2 => primes = <<>>

\* generate_primes has returned a list that ends with its prime target
C2_Witness ==
    /\ Generated
    /\ Len(primes) > 3
    /\ primes[Len(primes)] = target

\* C3: for every target >= 2, searching generate_primes(target) returns a
\* max_length equal to the greatest k for which some k consecutive primes
\* of the list sum to a prime that is at most target.
C3_MaxLengthIsGreatest ==
    Searched /\ target >= 2 => max_length = BestLength(primes, target)

\* C4: for every list of primes and every target, a returned
\* max_length > 0 comes with a max_prime that is prime, is at most target
\* and is the sum of max_length consecutive elements of the list.
C4_ResultIsARun ==
    Returned /\ max_length > 0 =>
        /\ IsPrimeNumber(max_prime)
        /\ max_prime <= target
        /\ \E a \in 0..(Len(primes) - max_length) :
               WindowSum(primes, a, max_length) = max_prime

\* the search of a hand-made list has returned a run of several elements
C4_Witness == Returned /\ caller = "list" /\ max_length >= 2

\* C5: the search with target 100 on generate_primes(100) returns
\* max_prime = 41 and max_length = 6, the run 2 + 3 + 5 + 7 + 11 + 13.
C5_BelowHundred ==
    Searched /\ target = 100 =>
        /\ max_prime = 41
        /\ max_length = 6
        /\ SubSeq(primes, 1, max_length) = <<2, 3, 5, 7, 11, 13>>
        /\ WindowSum(primes, 0, max_length) = max_prime

\* the search with target 100 has returned
C5_Witness == Searched /\ target = 100 /\ Len(primes) = 25

\* C6: the search with target 1000 on generate_primes(1000) returns
\* max_prime = 953 and max_length = 21.
C6_BelowThousand ==
    Searched /\ target = 1000 => max_prime = 953 /\ max_length = 21

\* the search with target 1000 has returned
C6_Witness == Searched /\ target = 1000 /\ Len(primes) = 168

\* C7: main, with TARGET = 1_000_000, gets max_prime = 997651 and
\* max_length = 21 from the search.  TARGET is not one of Targets: the run
\* of main is explored up to its call of generate_primes and no further,
\* and the claim is left open.

\* C8: on generate_primes(target), a returned max_prime with
\* max_length > 0 is strictly below target.
C8_StrictlyBelowTarget ==
    Searched /\ max_length > 0 => max_prime < target

\* C9: every window of the list, the ones that hold its last element
\* included, is a candidate, so the result is the best over all contiguous
\* windows of any list of primes.
C9_BestOverAllWindows ==
    Returned /\ caller = "list" => max_length = BestLength(primes, target)

C11_TrialDivisorsInOrder ==
    pc \in {"is_prime_loop", "is_prime_returned"} /\ n >= 2 =>
        /\ \A k \in 1..Len(tested) :
               /\ tested[k] = k + 1
               /\ tested[k] * tested[k] <= n
        /\ \A k \in 1..(Len(tested) - 1) : n % tested[k] # 0
        /\ pc = "is_prime_returned" /\ ret = FALSE =>
               Len(tested) > 0 /\ n % tested[Len(tested)] = 0
        /\ pc = "is_prime_returned" /\ ret = TRUE =>
               /\ \A k \in 1..Len(tested) : n % tested[k] # 0
               /\ (Len(tested) + 2) * (Len(tested) + 2) > n
        /\ pc = "is_prime_returned" => ret = IsPrimeNumber(n)

\* is_prime has returned False at the sixth divisor it tested
C11_Witness ==
    pc = "is_prime_returned" /\ ret = FALSE /\ Len(tested) = 6

\* the row passes both queries of overlay_untargeted_data
Overlaid(row) == tag_matches(row) /\ point(row) \in query

\* C12: every row overlay_untargeted_data returns has annotation tag '430'
\* or '530' and satisfies query_str, and every input row that has such a
\* tag, satisfies query_str and is the first such row with its metabolite
\* name is in the result.
C12_OverlayKeepsLevels430And530 ==
    pc = "overlay_returned" =>
        /\ \A k \in 1..Len(df) :
               /\ df[k].annotation_tag__vs1_0_ \in {"430", "530"}
               /\ point(df[k]) \in query
        /\ \A k \in 1..Len(table) :
               (/\ table[k].annotation_tag__vs1_0_ \in {"430", "530"}
                /\ point(table[k]) \in query
                /\ \A m \in 1..(k - 1) :
                       Overlaid(table[m]) =>
                           table[m].metabolite_name # table[k].metabolite_name)
               => \E j \in 1..Len(df) : df[j] = table[k]

\* two different rows with one metabolite name pass the queries, and the
\* first of them is what is returned
C12_Witness ==
    /\ pc = "overlay_returned"
    /\ Len(table) = 2
    /\ table[1] # table[2]
    /\ table[1].metabolite_name = table[2].metabolite_name
    /\ table[1].annotation_tag__vs1_0_ = "530"
    /\ Overlaid(table[1]) /\ Overlaid(table[2])
    /\ df = <<table[1]>>

\* C13: the table of tbl-overlaid-identifications has at most 50 rows and
\* no metabolite name appears in it more than once.
C13_IdentificationsAreDistinct ==
    pc = "tbl" =>
        /\ Len(tbl) <= 50
        /\ \A j, k \in 1..Len(tbl) :
               j # k => tbl[j].metabolite_name # tbl[k].metabolite_name

\* C14: the overall speed-up stated as 60x is the ratio of the execution
\* time of the original step (5.517 s) to that of the final step
\* (0.092 s), rounded to the nearest integer.
C14_SixtyTimes ==
    pc = "chart" =>
        /\ original_time(execution_time) = 5517
        /\ final_time(execution_time) = 92
        /\ RoundRatio(original_time(execution_time),
                      final_time(execution_time), 1) = 60

\* the chart's df holds its four steps
C14_Witness == pc = "chart" /\ Len(execution_time) = 4

C16_TestMetrics ==
    pc = "evaluated" =>
        LET tp == confusion.tp
            tn == confusion.tn
            fn == confusion.fn
            fp == confusion.fp
        IN  /\ tp + tn + fn + fp = 30
            /\ RoundRatio(tp, tp + fp, 1000) = 952
            /\ RoundRatio(tp, tp + fn, 1000) = 909
            /\ RoundRatio(2 * tp, 2 * tp + fp + fn, 1000) = 930
            /\ RoundRatio(tp + tn, tp + tn + fn + fp, 100) = 90

\* the final evaluation has produced its counts
C16_Witness == pc = "evaluated" /\ confusion.tp = 20 /\ confusion.fp = 1

\* C17: for one TARGET the three versions of main (all Python; Rust
\* is_prime and search with the Python generate_primes; all Rust) print
\* the same Prime and Length.
C17_VersionsAgree ==
    caller = "versions" =>
        /\ \A k \in 1..Len(results) : results[k] = results[1]
        /\ pc = "rs_done" /\ results # <<>> =>
               <<max_prime, max_length>> = results[1]

\* the three versions have printed a run of several primes
C17_Witness ==
    /\ caller = "versions"
    /\ pc = "printed"
    /\ Len(results) = 3
    /\ results[3][2] > 1

\* C18: for every target < 2, generate_primes(target) is empty and the
\* search of the empty list returns (0, 0); and for any input a returned
\* max_length of 0 occurs only when no non-empty window of the list has a
\* prime sum at most target.
C18_ZeroOnlyWhenNoWindow ==
    /\ Generated /\ target < 2 => primes = <<>>
    /\ Returned /\ primes = <<>> => max_prime = 0 /\ max_length = 0
    /\ Returned /\ caller \in {"caller", "list"} /\ max_length = 0 =>
           \A k \in 1..Len(primes) : ~HasRun(primes, target, k)

\* C19: longest_sum_of_consecutive_primes leaves primes and target as they
\* were passed, at every step from its entry to its return, and a second
\* call with the same arguments returns the pair the first call returned.
C19_ArgumentsUnchanged ==
    [][/\ pc \in {"longest_sum_of_consecutive_primes", "outer_loop"} =>
              primes' = primes /\ target' = target
       /\ pc' = "done" /\ caller' = "list" /\ results' # <<>> =>
              <<max_prime', max_length'>> = results'[1]]_vars

\* the second call has returned a run it found
C19_Witness ==
    /\ pc = "done"
    /\ caller = "list"
    /\ results # <<>>
    /\ max_length > 1
    /\ Len(primes) = MaxLen

====
